---- MODULE Spec2Model ----
(***************************************************************************)
(* A model of the uc_sso CAS client (src/uc_sso/main.py, parsers.py).      *)
(*                                                                         *)
(* Python strings on which the code does character work (URLs, table       *)
(* cells, attribute names) are sequences of one-character strings.  Opaque *)
(* tokens (cookie values, form values, credentials) are TLA+ strings.      *)
(* An HTML document is what html.parser hands to handle_starttag: the      *)
(* sequence of its start tags, each with its (name, value) attribute list, *)
(* a valueless attribute having the value None; the tables of a document   *)
(* are what HTMLTableParser leaves in self.tables.                         *)
(***************************************************************************)
EXTENDS Integers, Sequences, FiniteSets, TLC

VARIABLES op, pc, args, initial_service_response, sso_redirect_url, handshake_data,
          requests, last_response, result

vars == <<op, pc, args, initial_service_response, sso_redirect_url, handshake_data,
          requests, last_response, result>>

(***************************************************************************)
(* Bounds of the model.                                                    *)
(***************************************************************************)
\* start tags in a login page
MaxTags == 2
\* chunks a ticketed redirect URL is built from
MaxChunks == 3
\* data rows of an attribute table
MaxRows == 2

(***************************************************************************)
(* Python values.  An Optional value is None or Some(x).                   *)
(***************************************************************************)
None == <<>>

Some(x) == <<x>>

Raise(exc, msg) == [kind |-> "raise", exc |-> exc, msg |-> msg, value |-> None]

Return(v) == [kind |-> "return", exc |-> "", msg |-> <<>>, value |-> v]

NoResult == [kind |-> "none", exc |-> "", msg |-> <<>>, value |-> None]

\* the base class of each exception class the code raises
ExcBase ==
  [ SSOProtocolError |-> "ConnectionError",
    ConnectionError  |-> "OSError",
    OSError          |-> "Exception",
    LoginFailed      |-> "Exception",
    ValueError       |-> "Exception",
    AssertionError   |-> "Exception",
    IndexError       |-> "LookupError",
    LookupError      |-> "Exception",
    TypeError        |-> "Exception",
    Exception        |-> "BaseException" ]

RECURSIVE IsInstance(_, _)
IsInstance(exc, cls) ==
  \/ exc = cls
  \/ /\ exc \in DOMAIN ExcBase
     /\ IsInstance(ExcBase[exc], cls)

(***************************************************************************)
(* str methods, on sequences of characters.                                *)
(***************************************************************************)
Whitespace == {" ", "\t", "\n"}

Drop(s, n) == SubSeq(s, n + 1, Len(s))

Take(s, n) == SubSeq(s, 1, n)

StartsWith(s, t) == Len(t) <= Len(s) /\ Take(s, Len(t)) = t

\* the least i such that sep starts at s[i], or 0 (str.find, 1-based)
Find(s, sep) ==
  LET hits == { i \in 1..(Len(s) - Len(sep) + 1) : StartsWith(Drop(s, i - 1), sep) }
  IN  IF hits = {} THEN 0 ELSE CHOOSE i \in hits : \A j \in hits : i <= j

Contains(s, sep) == Find(s, sep) # 0

RECURSIVE Split(_, _)
Split(s, sep) ==
  LET i == Find(s, sep)
  IN  IF i = 0 THEN <<s>>
      ELSE <<Take(s, i - 1)>> \o Split(Drop(s, i - 1 + Len(sep)), sep)

RECURSIVE LStrip(_, _)
LStrip(s, chars) ==
  IF s # <<>> /\ Head(s) \in chars THEN LStrip(Tail(s), chars) ELSE s

RECURSIVE RStrip(_, _)
RStrip(s, chars) ==
  IF s # <<>> /\ s[Len(s)] \in chars THEN RStrip(Take(s, Len(s) - 1), chars) ELSE s

Strip(s) == RStrip(LStrip(s, Whitespace), Whitespace)

RECURSIVE Flatten(_)
Flatten(ss) == IF ss = <<>> THEN <<>> ELSE Head(ss) \o Flatten(Tail(ss))

SeqsUpTo(S, n) == UNION { [1..k -> S] : k \in 0..n }

(***************************************************************************)
(* requests: a response is its status code, its headers and cookies (sets  *)
(* of (name, value) pairs), and its body.                                  *)
(***************************************************************************)
REDIRECT_STATI == {301, 302, 303, 307, 308}

Has(pairs, name) == \E p \in pairs : p[1] = name

\* dict.get(name): None when there is no such entry
Get(pairs, name) ==
  IF Has(pairs, name) THEN Some((CHOOSE p \in pairs : p[1] = name)[2]) ELSE None

is_redirect(response) ==
  Has(response.headers, "Location") /\ response.status_code \in REDIRECT_STATI

Response(status_code, headers, cookies, body) ==
  [status_code |-> status_code, headers |-> headers, cookies |-> cookies, body |-> body]

Body(tags, tables) == [tags |-> tags, tables |-> tables]

NoResponse == Response(0, {}, {}, Body(<<>>, <<>>))

GetRequest(url, allow_redirects) ==
  [method |-> "GET", url |-> url, data |-> {}, cookies |-> {},
   allow_redirects |-> allow_redirects]

\* the credential POST of get_user_info and get_ticket
LoginPost(url, username, password, hs, allow_redirects) ==
  [method |-> "POST", url |-> url,
   data |-> { <<"username", username>>, <<"password", password>>,
              <<"_eventId", "submit">>, <<"execution", hs.execution>> },
   cookies |-> { <<"ssosaf", hs.ssosaf>> },
   allow_redirects |-> allow_redirects]

(***************************************************************************)
(* SSOHandshakeParser.                                                     *)
(***************************************************************************)
Attr(name, value) == <<name, value>>

Tag(tag, attrs) == [tag |-> tag, attrs |-> attrs]

InSeq(x, s) == \E i \in DOMAIN s : s[i] = x

HasAttr(attrs, name) == \E i \in DOMAIN attrs : attrs[i][1] = name

\* the value of the first attribute called name (None when it is valueless)
FirstAttr(attrs, name) ==
  LET hits == { i \in DOMAIN attrs : attrs[i][1] = name }
  IN  attrs[CHOOSE i \in hits : \A j \in hits : i <= j][2]

\* handle_starttag: self.execution after the tag
HandshakeStartTag(execution, t) ==
  IF /\ t.tag = "input"
     /\ InSeq(Attr("name", Some("execution")), t.attrs)
     /\ HasAttr(t.attrs, "value")
    THEN FirstAttr(t.attrs, "value")
    ELSE execution

RECURSIVE HandshakeFeed(_, _)
HandshakeFeed(execution, tags) ==
  IF tags = <<>> THEN execution
  ELSE HandshakeFeed(HandshakeStartTag(execution, Head(tags)), Tail(tags))

\* parser = SSOHandshakeParser(); parser.feed(html); parser.execution
ParseExecution(body) == HandshakeFeed(None, body.tags)

(***************************************************************************)
(* _get_initial_handshake, from the response to its GET on.                *)
(***************************************************************************)
InitialHandshakeData(ssosaf, execution) == [ssosaf |-> ssosaf, execution |-> execution]

\* a variant that looks for the execution parameter before the cookie
GetInitialHandshake_ExecutionFirst(response) ==
  LET ssosaf    == Get(response.cookies, "ssosaf")
      execution == ParseExecution(response.body)
  IN  IF execution = None
        THEN Raise("ValueError", <<"Could not find execution parameter in response.">>)
      ELSE IF ssosaf = None
        THEN Raise("ValueError", <<"Could not find ssosaf cookie.">>)
      ELSE Return(InitialHandshakeData(ssosaf[1], execution[1]))

GetInitialHandshake(response) ==
  LET ssosaf    == Get(response.cookies, "ssosaf")
      execution == ParseExecution(response.body)
  IN  IF ssosaf = None
        THEN Raise("ValueError", <<"Could not find ssosaf cookie.">>)
      ELSE IF execution = None
        THEN Raise("ValueError", <<"Could not find execution parameter in response.">>)
      ELSE Return(InitialHandshakeData(ssosaf[1], execution[1]))

(***************************************************************************)
(* get_ticket, between its requests.                                       *)
(***************************************************************************)
ServiceTicket(value, service_url) == [value |-> value, service_url |-> service_url]

TicketMarker == <<"t","i","c","k","e","t","=">>

\* lines 130-138: what the first response leads to; a returned value is the
\* sso_redirect_url to go on with
\* a variant that takes every redirect status for a reachable service
CheckServiceResponse_AnyRedirect(resp) ==
  IF resp.status_code \notin ({200} \cup REDIRECT_STATI)
    THEN Raise("ConnectionError",
               <<"Could not reach service. Status code: ", resp.status_code>>)
  ELSE IF ~is_redirect(resp)
    THEN Raise("SSOProtocolError", <<"Service doesn't seem to be SSO protected.">>)
  ELSE LET sso_url == Get(resp.headers, "Location")
       IN  IF sso_url = None \/ sso_url[1] = ""
             THEN Raise("AssertionError", <<"Could not find SSO redirect URL.">>)
             ELSE Return(sso_url[1])

\* a variant that takes a Location header alone for a redirect
CheckServiceResponse_LocationOnly(resp) ==
  IF resp.status_code \notin {200, 302}
    THEN Raise("ConnectionError",
               <<"Could not reach service. Status code: ", resp.status_code>>)
  ELSE IF ~Has(resp.headers, "Location")
    THEN Raise("SSOProtocolError", <<"Service doesn't seem to be SSO protected.">>)
  ELSE LET sso_url == Get(resp.headers, "Location")
       IN  IF sso_url = None \/ sso_url[1] = ""
             THEN Raise("AssertionError", <<"Could not find SSO redirect URL.">>)
             ELSE Return(sso_url[1])

CheckServiceResponse(resp) ==
  IF resp.status_code \notin {200, 302}
    THEN Raise("ConnectionError",
               <<"Could not reach service. Status code: ",
                 resp.status_code>>)
  ELSE IF ~is_redirect(resp)
    THEN Raise("SSOProtocolError", <<"Service doesn't seem to be SSO protected.">>)
  ELSE LET sso_url == Get(resp.headers, "Location")
       IN  IF sso_url = None \/ sso_url[1] = ""
             THEN Raise("AssertionError", <<"Could not find SSO redirect URL.">>)
             ELSE Return(sso_url[1])

\* line 162: ticketed_service_url.split("ticket=")[1]
TicketOf(ticketed_service_url) ==
  LET parts == Split(ticketed_service_url, TicketMarker)
  IN  IF Len(parts) < 2
        THEN Raise("IndexError", <<"list index out of range">>)
        ELSE Return(parts[2])

\* a variant that takes a redirect status alone for a redirect
TicketFromResponse_StatusOnly(login_response) ==
  IF login_response.status_code \notin REDIRECT_STATI
    THEN Raise("SSOProtocolError",
               <<"The second-step handshake didn't present a redirect (HTTP ",
                 login_response.status_code>>)
  ELSE LET ticketed_service_url == Get(login_response.headers, "Location")
       IN  IF ticketed_service_url = None
             THEN Raise("AssertionError", <<"Could not get ticketed service url.">>)
           ELSE LET ticket == TicketOf(ticketed_service_url[1])
                IN  IF ticket.kind = "raise" THEN ticket
                    ELSE Return(ServiceTicket(ticket.value, ticketed_service_url[1]))

\* lines 153-163: what the response to the credential POST leads to
TicketFromResponse(login_response) ==
  IF ~is_redirect(login_response)
    THEN Raise("SSOProtocolError",
               <<"The second-step handshake didn't present a redirect (HTTP ",
                 login_response.status_code>>)
  ELSE LET ticketed_service_url == Get(login_response.headers, "Location")
       IN  IF ticketed_service_url = None
             THEN Raise("AssertionError", <<"Could not get ticketed service url.">>)
           ELSE LET ticket == TicketOf(ticketed_service_url[1])
                IN  IF ticket.kind = "raise" THEN ticket
                    ELSE Return(ServiceTicket(ticket.value, ticketed_service_url[1]))

(***************************************************************************)
(* SSOUserInfoParser.                                                      *)
(***************************************************************************)
AlertSuccess == <<"a","l","e","r","t","-","s","u","c","c","e","s","s">>

\* the for loop of handle_starttag over the attributes of a div: "success"
\* when it sets login_status, "TypeError" when `in` meets the None of a
\* valueless class attribute, "" when it ends without either
ScanClass(attrs) ==
  LET RECURSIVE Scan(_)
      Scan(i) ==
        IF i > Len(attrs) THEN ""
        ELSE IF attrs[i][1] # "class" THEN Scan(i + 1)
        ELSE IF attrs[i][2] = None THEN "TypeError"
        ELSE IF Contains(attrs[i][2][1], AlertSuccess) THEN "success"
        ELSE Scan(i + 1)
  IN  Scan(1)

\* handle_starttag: login_status after the tag, or the exception it raises
UserInfoStartTag(login_status, t) ==
  IF t.tag # "div" THEN login_status
  ELSE LET found == ScanClass(t.attrs)
       IN  IF found = "" THEN login_status ELSE found

\* super().feed(data), as far as login_status goes: the start tags in
\* document order, up to the first one that raises
RECURSIVE UserInfoStartTags(_, _)
UserInfoStartTags(login_status, tags) ==
  IF tags = <<>> \/ login_status = "TypeError" THEN login_status
  ELSE UserInfoStartTags(UserInfoStartTag(login_status, Head(tags)), Tail(tags))

\* the values of an attributes entry: a str or a list of str
Str(s) == [type |-> "str", v |-> s]

List(l) == [type |-> "list", v |-> l]

EmptyDict == [k \in {} |-> Str(<<>>)]

DictSet(d, key, value) ==
  [k \in DOMAIN d \cup {key} |-> IF k = key THEN value ELSE d[k]]

S_displayName == <<"d","i","s","p","l","a","y","N","a","m","e">>

S_givenName == <<"g","i","v","e","n","N","a","m","e">>

S_sn == <<"s","n">>

S_apellidomaterno == <<"a","p","e","l","l","i","d","o","m","a","t","e","r","n","o">>

S_apellidos == <<"a","p","e","l","l","i","d","o","s">>

S_uid == <<"u","i","d">>

S_mail == <<"m","a","i","l">>

S_mailAlternateAddress == <<"m","a","i","l","A","l","t","e","r","n","a","t","e","A","d","d","r","e","s","s">>

S_businessCategory == <<"b","u","s","i","n","e","s","s","C","a","t","e","g","o","r","y">>

S_employeeType == <<"e","m","p","l","o","y","e","e","T","y","p","e">>

S_tipocorreo == <<"t","i","p","o","c","o","r","r","e","o">>

S_carlicense == <<"c","a","r","l","i","c","e","n","s","e">>

S_UDCIdentifier == <<"U","D","C","I","d","e","n","t","i","f","i","e","r">>

S_eduPersonScopedAffiliation == <<"e","d","u","P","e","r","s","o","n","S","c","o","p","e","d","A","f","f","i","l","i","a","t","i","o","n">>

S_cn == <<"c","n">>

S_organizationName == <<"o","r","g","a","n","i","z","a","t","i","o","n","N","a","m","e">>

K_full_name == <<"f","u","l","l","_","n","a","m","e">>

K_given_name == <<"g","i","v","e","n","_","n","a","m","e">>

K_first_last_name == <<"f","i","r","s","t","_","l","a","s","t","_","n","a","m","e">>

K_second_last_name == <<"s","e","c","o","n","d","_","l","a","s","t","_","n","a","m","e">>

K_surnames == <<"s","u","r","n","a","m","e","s">>

K_username == <<"u","s","e","r","n","a","m","e">>

K_email == <<"e","m","a","i","l">>

K_alternate_emails == <<"a","l","t","e","r","n","a","t","e","_","e","m","a","i","l","s">>

K_user_category == <<"u","s","e","r","_","c","a","t","e","g","o","r","y">>

K_user_type == <<"u","s","e","r","_","t","y","p","e">>

K_email_type == <<"e","m","a","i","l","_","t","y","p","e">>

K_run == <<"r","u","n">>

K_udc_id == <<"u","d","c","_","i","d">>

\* line 57
ValueSeq(cell) == Split(RStrip(LStrip(cell, {"["}), {"]"}), <<",", " ">>)

\* a variant of the chain without its mail branch
RowEntry_NoMail(attr_name, value_seq) ==
  IF attr_name = S_displayName
    THEN Some(<<K_full_name, Str(value_seq[1])>>)
  ELSE IF attr_name = S_givenName
    THEN Some(<<K_given_name, Str(value_seq[1])>>)
  ELSE IF attr_name = S_sn
    THEN Some(<<K_first_last_name, Str(value_seq[1])>>)
  ELSE IF attr_name = S_apellidomaterno
    THEN Some(<<K_second_last_name, Str(value_seq[1])>>)
  ELSE IF attr_name = S_apellidos
    THEN Some(<<K_surnames, Str(value_seq[1])>>)
  ELSE IF attr_name = S_uid
    THEN Some(<<K_username, Str(value_seq[1])>>)
  ELSE IF attr_name = S_mailAlternateAddress
    THEN Some(<<K_alternate_emails, List(value_seq)>>)
  ELSE IF attr_name = S_businessCategory
    THEN Some(<<K_user_category, Str(value_seq[1])>>)
  ELSE IF attr_name = S_employeeType
    THEN Some(<<K_user_type, Str(value_seq[1])>>)
  ELSE IF attr_name = S_tipocorreo
    THEN Some(<<K_email_type, Str(value_seq[1])>>)
  ELSE IF attr_name = S_carlicense
    THEN Some(<<K_run, Str(LStrip(value_seq[1], {"0"}))>>)
  ELSE IF attr_name = S_UDCIdentifier
    THEN Some(<<K_udc_id, Str(value_seq[1])>>)
  ELSE IF attr_name \in {S_eduPersonScopedAffiliation, S_cn, S_organizationName}
    THEN None
  ELSE IF Len(value_seq) = 1 /\ Strip(value_seq[1]) = <<>>
    THEN None
  ELSE IF Len(value_seq) = 1
    THEN Some(<<attr_name, Str(value_seq[1])>>)
  ELSE IF Len(value_seq) > 1
    THEN Some(<<attr_name, List(value_seq)>>)
  ELSE None

\* a variant of the chain without its branch for the names to pass over
RowEntry_NoDenylist(attr_name, value_seq) ==
  IF attr_name = S_displayName
    THEN Some(<<K_full_name, Str(value_seq[1])>>)
  ELSE IF attr_name = S_givenName
    THEN Some(<<K_given_name, Str(value_seq[1])>>)
  ELSE IF attr_name = S_sn
    THEN Some(<<K_first_last_name, Str(value_seq[1])>>)
  ELSE IF attr_name = S_apellidomaterno
    THEN Some(<<K_second_last_name, Str(value_seq[1])>>)
  ELSE IF attr_name = S_apellidos
    THEN Some(<<K_surnames, Str(value_seq[1])>>)
  ELSE IF attr_name = S_uid
    THEN Some(<<K_username, Str(value_seq[1])>>)
  ELSE IF attr_name = S_mail
    THEN Some(<<K_email, Str(value_seq[1])>>)
  ELSE IF attr_name = S_mailAlternateAddress
    THEN Some(<<K_alternate_emails, List(value_seq)>>)
  ELSE IF attr_name = S_businessCategory
    THEN Some(<<K_user_category, Str(value_seq[1])>>)
  ELSE IF attr_name = S_employeeType
    THEN Some(<<K_user_type, Str(value_seq[1])>>)
  ELSE IF attr_name = S_tipocorreo
    THEN Some(<<K_email_type, Str(value_seq[1])>>)
  ELSE IF attr_name = S_carlicense
    THEN Some(<<K_run, Str(LStrip(value_seq[1], {"0"}))>>)
  ELSE IF attr_name = S_UDCIdentifier
    THEN Some(<<K_udc_id, Str(value_seq[1])>>)
  ELSE IF Len(value_seq) = 1 /\ Strip(value_seq[1]) = <<>>
    THEN None
  ELSE IF Len(value_seq) = 1
    THEN Some(<<attr_name, Str(value_seq[1])>>)
  ELSE IF Len(value_seq) > 1
    THEN Some(<<attr_name, List(value_seq)>>)
  ELSE None

\* a variant of the chain that keeps the zeros of carlicense
RowEntry_RunUnstripped(attr_name, value_seq) ==
  IF attr_name = S_displayName
    THEN Some(<<K_full_name, Str(value_seq[1])>>)
  ELSE IF attr_name = S_givenName
    THEN Some(<<K_given_name, Str(value_seq[1])>>)
  ELSE IF attr_name = S_sn
    THEN Some(<<K_first_last_name, Str(value_seq[1])>>)
  ELSE IF attr_name = S_apellidomaterno
    THEN Some(<<K_second_last_name, Str(value_seq[1])>>)
  ELSE IF attr_name = S_apellidos
    THEN Some(<<K_surnames, Str(value_seq[1])>>)
  ELSE IF attr_name = S_uid
    THEN Some(<<K_username, Str(value_seq[1])>>)
  ELSE IF attr_name = S_mail
    THEN Some(<<K_email, Str(value_seq[1])>>)
  ELSE IF attr_name = S_mailAlternateAddress
    THEN Some(<<K_alternate_emails, List(value_seq)>>)
  ELSE IF attr_name = S_businessCategory
    THEN Some(<<K_user_category, Str(value_seq[1])>>)
  ELSE IF attr_name = S_employeeType
    THEN Some(<<K_user_type, Str(value_seq[1])>>)
  ELSE IF attr_name = S_tipocorreo
    THEN Some(<<K_email_type, Str(value_seq[1])>>)
  ELSE IF attr_name = S_carlicense
    THEN Some(<<K_run, Str(value_seq[1])>>)
  ELSE IF attr_name = S_UDCIdentifier
    THEN Some(<<K_udc_id, Str(value_seq[1])>>)
  ELSE IF attr_name \in {S_eduPersonScopedAffiliation, S_cn, S_organizationName}
    THEN None
  ELSE IF Len(value_seq) = 1 /\ Strip(value_seq[1]) = <<>>
    THEN None
  ELSE IF Len(value_seq) = 1
    THEN Some(<<attr_name, Str(value_seq[1])>>)
  ELSE IF Len(value_seq) > 1
    THEN Some(<<attr_name, List(value_seq)>>)
  ELSE None

\* lines 60-102: the entry a row sets, <<key, value>>, or None when the row
\* is passed over
RowEntry(attr_name, value_seq) ==
  IF attr_name = S_displayName
    THEN Some(<<K_full_name, Str(value_seq[1])>>)
  ELSE IF attr_name = S_givenName
    THEN Some(<<K_given_name, Str(value_seq[1])>>)
  ELSE IF attr_name = S_sn
    THEN Some(<<K_first_last_name, Str(value_seq[1])>>)
  ELSE IF attr_name = S_apellidomaterno
    THEN Some(<<K_second_last_name, Str(value_seq[1])>>)
  ELSE IF attr_name = S_apellidos
    THEN Some(<<K_surnames, Str(value_seq[1])>>)
  ELSE IF attr_name = S_uid
    THEN Some(<<K_username, Str(value_seq[1])>>)
  ELSE IF attr_name = S_mail
    THEN Some(<<K_email, Str(value_seq[1])>>)
  ELSE IF attr_name = S_mailAlternateAddress
    THEN Some(<<K_alternate_emails, List(value_seq)>>)
  ELSE IF attr_name = S_businessCategory
    THEN Some(<<K_user_category, Str(value_seq[1])>>)
  ELSE IF attr_name = S_employeeType
    THEN Some(<<K_user_type, Str(value_seq[1])>>)
  ELSE IF attr_name = S_tipocorreo
    THEN Some(<<K_email_type, Str(value_seq[1])>>)
  ELSE IF attr_name = S_carlicense
    THEN Some(<<K_run, Str(LStrip(value_seq[1], {"0"}))>>)
  ELSE IF attr_name = S_UDCIdentifier
    THEN Some(<<K_udc_id, Str(value_seq[1])>>)
  ELSE IF attr_name \in {S_eduPersonScopedAffiliation, S_cn, S_organizationName}
    THEN None
  ELSE IF Len(value_seq) = 1 /\ Strip(value_seq[1]) = <<>>
    THEN None
  ELSE IF Len(value_seq) = 1
    THEN Some(<<attr_name, Str(value_seq[1])>>)
  ELSE IF Len(value_seq) > 1
    THEN Some(<<attr_name, List(value_seq)>>)
  ELSE None

\* lines 51-102: the loop over the rows; exc is the exception that ends it
RECURSIVE FeedRows(_, _)
FeedRows(attributes, rows) ==
  IF rows = <<>> THEN [exc |-> "", msg |-> <<>>, attributes |-> attributes]
  ELSE LET row == Head(rows)
       IN  IF Len(row) # 2
             THEN [exc |-> "AssertionError",
                   msg |-> <<"Abnormal row length found in attribute table.">>,
                   attributes |-> attributes]
           ELSE LET entry == RowEntry(Strip(row[1]), ValueSeq(row[2]))
                IN  FeedRows(IF entry = None THEN attributes
                             ELSE DictSet(attributes, entry[1][1], entry[1][2]),
                             Tail(rows))

\* SSOUserInfoParser().feed(html): the exception it raises (exc, "" when it
\* returns), and the parser's login_status and attributes after it
UserInfoFeed(body) ==
  LET login_status == UserInfoStartTags("failure", body.tags)
  IN  IF login_status = "TypeError"
        THEN [exc |-> "TypeError", msg |-> <<"argument of type 'NoneType' is not iterable">>,
              login_status |-> "failure", attributes |-> None]
      ELSE IF login_status # "success"
        THEN [exc |-> "", msg |-> <<>>, login_status |-> login_status, attributes |-> None]
      ELSE IF body.tables = <<>>
        THEN [exc |-> "IndexError", msg |-> <<"list index out of range">>,
              login_status |-> login_status, attributes |-> None]
      ELSE IF body.tables[1] = <<>>
        THEN [exc |-> "AssertionError",
              msg |-> <<"Login successfull, but attribute table not found.">>,
              login_status |-> login_status, attributes |-> None]
      ELSE LET fed == FeedRows(EmptyDict, Tail(body.tables[1]))
           IN  [exc |-> fed.exc, msg |-> fed.msg, login_status |-> login_status,
                attributes |-> Some(fed.attributes)]

(***************************************************************************)
(* SSOUserInfoParser of uc_sso_helper/main.py, the copy of the parser that *)
(* the helper package carries.                                             *)
(***************************************************************************)
AlertAlertSuccess == <<"a","l","e","r","t"," ">> \o AlertSuccess

\* the for loop of the helper's handle_starttag: `==` compares the class
\* value, None included, with the whole string
HelperScanClass(attrs) ==
  LET RECURSIVE Scan(_)
      Scan(i) ==
        IF i > Len(attrs) THEN ""
        ELSE IF attrs[i][1] # "class" THEN Scan(i + 1)
        ELSE IF attrs[i][2] = Some(AlertAlertSuccess) THEN "success"
        ELSE Scan(i + 1)
  IN  Scan(1)

HelperUserInfoStartTag(login_status, t) ==
  IF t.tag # "div" THEN login_status
  ELSE LET found == HelperScanClass(t.attrs)
       IN  IF found = "" THEN login_status ELSE found

RECURSIVE HelperUserInfoStartTags(_, _)
HelperUserInfoStartTags(login_status, tags) ==
  IF tags = <<>> THEN login_status
  ELSE HelperUserInfoStartTags(HelperUserInfoStartTag(login_status, Head(tags)),
                               Tail(tags))

\* the helper's chain over the raw names
HelperRowEntry(attr_name, value_seq) ==
  IF attr_name = S_displayName
    THEN Some(<<K_full_name, Str(value_seq[1])>>)
  ELSE IF attr_name = S_givenName
    THEN Some(<<K_given_name, Str(value_seq[1])>>)
  ELSE IF attr_name = S_sn
    THEN Some(<<K_first_last_name, Str(value_seq[1])>>)
  ELSE IF attr_name = S_apellidomaterno
    THEN Some(<<K_second_last_name, Str(value_seq[1])>>)
  ELSE IF attr_name = S_apellidos
    THEN Some(<<K_surnames, Str(value_seq[1])>>)
  ELSE IF attr_name = S_uid
    THEN Some(<<K_username, Str(value_seq[1])>>)
  ELSE IF attr_name = S_mailAlternateAddress
    THEN Some(<<K_alternate_emails, List(value_seq)>>)
  ELSE IF attr_name = S_businessCategory
    THEN Some(<<K_user_category, Str(value_seq[1])>>)
  ELSE IF attr_name = S_employeeType
    THEN Some(<<K_user_type, Str(value_seq[1])>>)
  ELSE IF attr_name = S_tipocorreo
    THEN Some(<<K_email_type, Str(value_seq[1])>>)
  ELSE IF attr_name = S_carlicense
    THEN Some(<<K_run, Str(LStrip(value_seq[1], {"0"}))>>)
  ELSE IF attr_name = S_UDCIdentifier
    THEN Some(<<K_udc_id, Str(value_seq[1])>>)
  ELSE IF attr_name \in {S_eduPersonScopedAffiliation, S_cn, S_organizationName}
    THEN None
  ELSE IF Len(value_seq) = 1 /\ Strip(value_seq[1]) = <<>>
    THEN None
  ELSE IF Len(value_seq) = 1
    THEN Some(<<attr_name, Str(value_seq[1])>>)
  ELSE IF Len(value_seq) > 1
    THEN Some(<<attr_name, List(value_seq)>>)
  ELSE None

RECURSIVE HelperFeedRows(_, _)
HelperFeedRows(attributes, rows) ==
  IF rows = <<>> THEN [exc |-> "", msg |-> <<>>, attributes |-> attributes]
  ELSE LET row == Head(rows)
       IN  IF Len(row) # 2
             THEN [exc |-> "AssertionError",
                   msg |-> <<"Abnormal row length found in attribute table.">>,
                   attributes |-> attributes]
           ELSE LET entry == HelperRowEntry(Strip(row[1]), ValueSeq(row[2]))
                IN  HelperFeedRows(IF entry = None THEN attributes
                                   ELSE DictSet(attributes, entry[1][1], entry[1][2]),
                                   Tail(rows))

\* the helper's SSOUserInfoParser().feed(html)
HelperUserInfoFeed(body) ==
  LET login_status == HelperUserInfoStartTags("failure", body.tags)
  IN  IF login_status # "success"
        THEN [exc |-> "", msg |-> <<>>, login_status |-> login_status, attributes |-> None]
      ELSE IF body.tables = <<>>
        THEN [exc |-> "IndexError", msg |-> <<"list index out of range">>,
              login_status |-> login_status, attributes |-> None]
      ELSE IF body.tables[1] = <<>>
        THEN [exc |-> "AssertionError",
              msg |-> <<"Login successfull, but attribute table not found.">>,
              login_status |-> login_status, attributes |-> None]
      ELSE LET fed == HelperFeedRows(EmptyDict, Tail(body.tables[1]))
           IN  [exc |-> fed.exc, msg |-> fed.msg, login_status |-> login_status,
                attributes |-> Some(fed.attributes)]

\* a variant that parses the page whatever the status
UserInfoFromResponse_NoStatusCheck(resp) ==
  LET parser == UserInfoFeed(resp.body)
  IN  IF parser.exc # "" THEN Raise(parser.exc, parser.msg)
      ELSE IF parser.login_status = "failure"
        THEN Raise("LoginFailed", <<"Invalid credentials.">>)
      ELSE Return(parser.attributes[1])

\* get_user_info, lines 103-114: what the response to the POST leads to
UserInfoFromResponse(resp) ==
  IF resp.status_code # 200
    THEN Raise("SSOProtocolError",
               <<"SSO didn't respond to information request as expected (HTTP ",
                 resp.status_code>>)
  ELSE LET parser == UserInfoFeed(resp.body)
       IN  IF parser.exc # "" THEN Raise(parser.exc, parser.msg)
           ELSE IF parser.login_status = "failure"
             THEN Raise("LoginFailed", <<"Invalid credentials.">>)
           ELSE Return(parser.attributes[1])

(***************************************************************************)
(* The values the calls and the server's responses are drawn from.         *)
(***************************************************************************)
SSO_ENDPOINT == "https://sso.uc.cl/cas/login"

Endpoints == {SSO_ENDPOINT, "https://sso.example/cas/login"}

ServiceUrls == {"https://portal.uc.cl"}

Usernames == {"user"}

Passwords == {"secret"}

\* a handshake the caller made earlier and passes to get_user_info
SuppliedHandshakes == {InitialHandshakeData("saf-0", "e0")}

CookieJars ==
  { {}, {<<"ssosaf", "saf-1">>}, {<<"ssosaf", "">>}, {<<"JSESSIONID", "x">>} }

\* start tags of a login page; the fourth has a valueless value attribute
HandshakeTags ==
  { Tag("input", <<Attr("name", Some("execution")), Attr("value", Some("e1"))>>),
    Tag("input", <<Attr("type", Some("hidden")), Attr("value", Some("e2")),
                   Attr("name", Some("execution"))>>),
    Tag("input", <<Attr("name", Some("execution"))>>),
    Tag("input", <<Attr("name", Some("execution")), Attr("value", None)>>),
    Tag("input", <<Attr("name", Some("execution")), Attr("value", Some(""))>>),
    Tag("input", <<Attr("name", Some("username")), Attr("value", Some("e3"))>>),
    Tag("div",   <<Attr("name", Some("execution")), Attr("value", Some("e4"))>>) }

HandshakeResponses ==
  { Response(200, {}, jar, Body(page, <<>>)) :
      jar \in CookieJars, page \in SeqsUpTo(HandshakeTags, MaxTags) }

ServiceStatuses == {200, 301, 302, 303, 307, 401, 500}

ServiceResponses ==
  { Response(status, headers, {}, Body(<<>>, <<>>)) :
      status \in ServiceStatuses,
      headers \in { {}, {<<"Location", "">>},
                    {<<"Location", "https://sso.uc.cl/cas/login?service=portal">>} }
                    \cup { {<<"Location", url>>} : url \in ServiceUrls } }

\* a ticketed redirect URL is a run of these pieces
UrlChunks ==
  { TicketMarker, <<"S","T","-","1">>, <<"t","i","c","k","e","t">>, <<"&","x","=">> }

TicketedUrls == { Flatten(chunks) : chunks \in SeqsUpTo(UrlChunks, MaxChunks) }

PostStatuses == {200, 302, 303, 401}

TicketResponses ==
  { Response(status, headers, {}, Body(<<>>, <<>>)) :
      status \in PostStatuses,
      headers \in {{}} \cup { {<<"Location", url>>} : url \in TicketedUrls } }

\* start tags of the page that answers the credential POST; the fourth has
\* a valueless class attribute
DivTags ==
  { Tag("div", <<Attr("class", Some(<<"a","l","e","r","t"," ">> \o AlertSuccess))>>),
    Tag("div", <<Attr("id", Some(<<"m","s","g">>)), Attr("class", Some(AlertSuccess))>>),
    Tag("div", <<Attr("class", Some(<<"a","l","e","r","t","-","d","a","n","g","e","r">>))>>),
    Tag("div", <<Attr("class", None)>>),
    Tag("span", <<Attr("class", Some(AlertSuccess))>>) }

HeaderRow == << <<"A","t","t","r","i","b","u","t","e">>, <<"V","a","l","u","e">> >>

\* the tables of a few pages: none, an empty one, a header alone, data rows,
\* a row of one cell, and a second table
SmallTables ==
  { <<>>,
    << <<>> >>,
    << <<HeaderRow>> >>,
    << <<HeaderRow, <<S_mail, <<"[","a","]">> >> >> >>,
    << <<HeaderRow, <<S_uid, <<"[","a","]">> >>, <<S_cn>> >> >>,
    << <<HeaderRow, <<S_cn, <<"[","a",","," ","b","]">> >> >>, <<HeaderRow>> >> }

SmallBodies ==
  { Body(tags, tables) : tags \in SeqsUpTo(DivTags, MaxTags), tables \in SmallTables }

\* raw attribute names: those of the chain, unknown ones, one that is also a
\* regularized key, and some with white space around them
AttributeNames ==
  { S_displayName, S_givenName, S_sn, S_apellidomaterno, S_apellidos, S_uid, S_mail,
    S_mailAlternateAddress, S_businessCategory, S_employeeType, S_tipocorreo,
    S_carlicense, S_UDCIdentifier, S_eduPersonScopedAffiliation, S_cn,
    S_organizationName,
    <<"x">>, K_email, <<>>,
    <<" ">> \o S_mail \o <<" ">>, <<"\t">> \o S_cn, S_carlicense \o <<"\n">> }

CoreValue == <<"[","0","0","7",","," ","b","]">>

AttributeValues ==
  { CoreValue, <<"[","a","]">>, <<"[","]">>, <<"["," ","]">>, <<"[",","," ","]">>, <<"0">> }

\* every name with the core value, and a few names with every value
AttributeRows ==
  { <<name, CoreValue>> : name \in AttributeNames }
    \cup { <<name, value>> : name \in {S_uid, S_carlicense, <<"x">>},
                             value \in AttributeValues }
    \cup { <<S_carlicense, <<"[","0","0","7","0","]">>>>,
           <<<<"x">>, <<"[","[","a","]","]">>>> }

AttributeTables ==
  { << <<HeaderRow>> \o rows >> : rows \in SeqsUpTo(AttributeRows, MaxRows) }
    \cup SmallTables

AttributeTagSeqs ==
  { <<>>,
    <<Tag("div", <<Attr("class", Some(<<"a","l","e","r","t"," ">> \o AlertSuccess))>>)>>,
    <<Tag("div", <<Attr("class", Some(<<"a","l","e","r","t","-","d","a","n","g","e","r">>))>>),
      Tag("div", <<Attr("id", Some(<<"m","s","g">>)), Attr("class", Some(AlertSuccess))>>)>> }

AttributeBodies ==
  { Body(tags, tables) : tags \in AttributeTagSeqs, tables \in AttributeTables }

LoginStatuses == {200, 302, 500}

LoginResponses(statuses, bodies) ==
  { Response(status, {}, {}, body) : status \in statuses, body \in bodies }

(***************************************************************************)
(* The calls.  One public function runs at a time (op), from its call to   *)
(* its return or raise (result), a step at a time (pc): each step is one   *)
(* HTTP request, its response, and the code up to the next request.        *)
(***************************************************************************)
NoArgs ==
  [username |-> "", password |-> "", handshake_data |-> None,
   sso_endpoint |-> "", service_url |-> "", endpoint |-> ""]

NoHandshake == InitialHandshakeData("", "")

Init ==
  /\ op = ""
  /\ pc = "idle"
  /\ args = NoArgs
  /\ initial_service_response = NoResponse
  /\ sso_redirect_url = ""
  /\ handshake_data = NoHandshake
  /\ requests = <<>>
  /\ last_response = NoResponse
  /\ result = NoResult

\* _get_initial_handshake(endpoint)
CallHandshake ==
  /\ pc = "idle"
  /\ \E endpoint \in Endpoints :
       args' = [NoArgs EXCEPT !.endpoint = endpoint]
  /\ op' = "_get_initial_handshake"
  /\ pc' = "handshake"
  /\ UNCHANGED <<initial_service_response, sso_redirect_url, handshake_data, requests,
                 last_response, result>>

\* a variant that makes a handshake of its own whatever it is given
CallUserInfo_AlwaysHandshake(handshakes, endpoints) ==
  /\ pc = "idle"
  /\ \E username \in Usernames, password \in Passwords,
        hs \in handshakes, sso_endpoint \in endpoints :
       args' = [NoArgs EXCEPT !.username = username, !.password = password,
                              !.handshake_data = hs, !.sso_endpoint = sso_endpoint]
  /\ op' = "get_user_info"
  /\ pc' = "handshake"
  /\ UNCHANGED <<initial_service_response, sso_redirect_url, handshake_data, requests,
                 last_response, result>>

\* get_user_info(username, password, handshake_data, sso_endpoint), lines 90-91
CallUserInfo(handshakes, endpoints) ==
  /\ pc = "idle"
  /\ \E username \in Usernames, password \in Passwords,
        hs \in handshakes, sso_endpoint \in endpoints :
       /\ args' = [NoArgs EXCEPT !.username = username, !.password = password,
                                 !.handshake_data = hs, !.sso_endpoint = sso_endpoint]
       /\ IF hs = None
            THEN pc' = "handshake" /\ UNCHANGED handshake_data
            ELSE pc' = "post" /\ handshake_data' = hs[1]
  /\ op' = "get_user_info"
  /\ UNCHANGED <<initial_service_response, sso_redirect_url, requests, last_response, result>>

\* get_ticket(username, password, service_url, sso_endpoint)
CallGetTicket ==
  /\ pc = "idle"
  /\ \E username \in Usernames, password \in Passwords,
        service_url \in ServiceUrls, sso_endpoint \in Endpoints :
       args' = [NoArgs EXCEPT !.username = username, !.password = password,
                              !.service_url = service_url, !.sso_endpoint = sso_endpoint]
  /\ op' = "get_ticket"
  /\ pc' = "service"
  /\ UNCHANGED <<initial_service_response, sso_redirect_url, handshake_data, requests,
                 last_response, result>>

\* a variant in which get_ticket makes its handshake at sso_endpoint
HandshakeEndpoint_SsoEndpoint ==
  IF op \in {"get_ticket", "get_user_info"} THEN args.sso_endpoint
  ELSE args.endpoint

\* the endpoint _get_initial_handshake is called with (lines 91, 141)
HandshakeEndpoint ==
  IF op = "get_ticket" THEN sso_redirect_url
  ELSE IF op = "get_user_info" THEN args.sso_endpoint
  ELSE args.endpoint

\* a variant whose caller goes on with the handshake data it had before
HandshakeGet_Stale ==
  /\ pc = "handshake"
  /\ \E resp \in HandshakeResponses :
       LET got == GetInitialHandshake(resp)
       IN  /\ requests' = Append(requests, GetRequest(HandshakeEndpoint, TRUE))
           /\ last_response' = resp
           /\ IF got.kind = "raise" \/ op = "_get_initial_handshake"
                THEN /\ result' = got
                     /\ pc' = "done"
                ELSE /\ pc' = "post"
                     /\ UNCHANGED result
  /\ UNCHANGED <<op, args, initial_service_response, sso_redirect_url, handshake_data>>

\* a variant whose caller goes on to the POST after a failed handshake
HandshakeGet_GoesOn ==
  /\ pc = "handshake"
  /\ \E resp \in HandshakeResponses :
       LET got == GetInitialHandshake(resp)
       IN  /\ requests' = Append(requests, GetRequest(HandshakeEndpoint, TRUE))
           /\ last_response' = resp
           /\ IF op = "_get_initial_handshake"
                THEN /\ result' = got
                     /\ pc' = "done"
                     /\ UNCHANGED handshake_data
                ELSE /\ handshake_data' = IF got.kind = "raise" THEN handshake_data
                                          ELSE got.value
                     /\ pc' = "post"
                     /\ UNCHANGED result
  /\ UNCHANGED <<op, args, initial_service_response, sso_redirect_url>>

\* _get_initial_handshake, lines 45-58, and its caller up to the next request
HandshakeGet ==
  /\ pc = "handshake"
  /\ \E resp \in HandshakeResponses :
       LET got == GetInitialHandshake(resp)
       IN  /\ requests' = Append(requests, GetRequest(HandshakeEndpoint, TRUE))
           /\ last_response' = resp
           /\ IF got.kind = "raise" \/ op = "_get_initial_handshake"
                THEN /\ result' = got
                     /\ pc' = "done"
                     /\ UNCHANGED handshake_data
                ELSE /\ handshake_data' = got.value
                     /\ pc' = "post"
                     /\ UNCHANGED result
  /\ UNCHANGED <<op, args, initial_service_response, sso_redirect_url>>

\* get_user_info, lines 93-114
UserInfoPost(login_responses) ==
  /\ pc = "post"
  /\ op = "get_user_info"
  /\ \E resp \in login_responses :
       /\ requests' = Append(requests, LoginPost(args.sso_endpoint, args.username,
                                                 args.password, handshake_data, TRUE))
       /\ last_response' = resp
       /\ result' = UserInfoFromResponse(resp)
  /\ pc' = "done"
  /\ UNCHANGED <<op, args, initial_service_response, sso_redirect_url, handshake_data>>

\* get_ticket, lines 129-138
ServiceGet ==
  /\ pc = "service"
  /\ \E resp \in ServiceResponses :
       LET checked == CheckServiceResponse(resp)
       IN  /\ requests' = Append(requests, GetRequest(args.service_url, FALSE))
           /\ initial_service_response' = resp
           /\ last_response' = resp
           /\ IF checked.kind = "raise"
                THEN /\ result' = checked
                     /\ pc' = "done"
                     /\ UNCHANGED sso_redirect_url
                ELSE /\ sso_redirect_url' = checked.value
                     /\ pc' = "handshake"
                     /\ UNCHANGED result
  /\ UNCHANGED <<op, args, handshake_data>>

\* get_ticket, lines 142-163
TicketPost ==
  /\ pc = "post"
  /\ op = "get_ticket"
  /\ \E resp \in TicketResponses :
       /\ requests' = Append(requests, LoginPost(sso_redirect_url, args.username,
                                                 args.password, handshake_data, FALSE))
       /\ last_response' = resp
       /\ result' = TicketFromResponse(resp)
  /\ pc' = "done"
  /\ UNCHANGED <<op, args, initial_service_response, sso_redirect_url, handshake_data>>

\* the call is over; the next one starts from nothing
Finish ==
  /\ pc = "done"
  /\ op' = ""
  /\ pc' = "idle"
  /\ args' = NoArgs
  /\ initial_service_response' = NoResponse
  /\ sso_redirect_url' = ""
  /\ handshake_data' = NoHandshake
  /\ requests' = <<>>
  /\ last_response' = NoResponse
  /\ result' = NoResult

Next ==
  \/ CallHandshake
  \/ CallUserInfo({None} \cup { Some(hs) : hs \in SuppliedHandshakes }, Endpoints)
  \/ CallGetTicket
  \/ HandshakeGet
  \/ UserInfoPost(LoginResponses(LoginStatuses, SmallBodies))
  \/ ServiceGet
  \/ TicketPost
  \/ Finish

Spec == Init /\ [][Next]_vars

\* get_user_info called with a handshake made before, as the command line
\* does (line 172), and answered by pages with attribute tables
NextAttributes ==
  \/ CallUserInfo({ Some(hs) : hs \in SuppliedHandshakes }, {SSO_ENDPOINT})
  \/ UserInfoPost(LoginResponses({200}, AttributeBodies))
  \/ Finish

SpecAttributes == Init /\ [][NextAttributes]_vars

(***************************************************************************)
(* What the claims speak of.                                               *)
(***************************************************************************)
Last(seq) == seq[Len(seq)]

\* the last request was the GET of _get_initial_handshake (the only request
\* that follows redirects and carries no form), and last_response answers it
HandshakeEnded ==
  /\ pc \in {"post", "done"}
  /\ requests # <<>>
  /\ Last(requests).method = "GET"
  /\ Last(requests).allow_redirects

\* what _get_initial_handshake came to: inside get_user_info and get_ticket a
\* returned value is the handshake_data they go on with
HandshakeOutcome == IF pc = "post" THEN Return(handshake_data) ELSE result

\* the <input name="execution"> tags of a page, by position
ExecutionInputs(page) ==
  { i \in DOMAIN page :
      /\ page[i].tag = "input"
      /\ \E k \in DOMAIN page[i].attrs : page[i].attrs[k] = Attr("name", Some("execution")) }

\* the values a tag's value attributes give it
TagValues(t) ==
  { t.attrs[k][2][1] : k \in { j \in DOMAIN t.attrs :
                                 t.attrs[j][1] = "value" /\ t.attrs[j][2] # None } }

AfterFirst(s, sep) == Drop(s, Find(s, sep) - 1 + Len(sep))

GetTicketEnded == op = "get_ticket" /\ pc = "done"

\* the credential POST of get_ticket was sent and last_response answers it
TicketPosted == GetTicketEnded /\ Len(requests) = 3

\* the Location of the response to the credential POST
TicketedUrl == Get(last_response.headers, "Location")[1]

\* C2: when the service answers 302 with Location L1, the handshake against
\* L1 succeeds and the POST is answered by a redirect to an L2 that contains
\* ticket=, get_ticket has issued GET service_url, GET L1, POST L1 in that
\* order and returns ServiceTicket(the text after ticket= in L2, L2).
C2_HappyPath ==
  /\ (op = "get_ticket" /\ pc = "handshake") =>
       /\ requests = <<GetRequest(args.service_url, FALSE)>>
       /\ sso_redirect_url = Get(initial_service_response.headers, "Location")[1]
  /\ (op = "get_ticket" /\ pc = "post") =>
       requests = <<GetRequest(args.service_url, FALSE), GetRequest(sso_redirect_url, TRUE)>>
  /\ (TicketPosted /\ is_redirect(last_response)
                   /\ Contains(TicketedUrl, TicketMarker)) =>
       /\ initial_service_response.status_code = 302
       /\ requests = <<GetRequest(args.service_url, FALSE),
                       GetRequest(sso_redirect_url, TRUE),
                       LoginPost(sso_redirect_url, args.username, args.password,
                                 handshake_data, FALSE)>>
       /\ result = Return(ServiceTicket(AfterFirst(TicketedUrl, TicketMarker), TicketedUrl))

\* C5: when the Location of the POST's redirect has no ticket= in it,
\* get_ticket raises the protocol error (SSOProtocolError).
C5_NoMarkerIsProtocolError ==
  (TicketPosted /\ is_redirect(last_response)
                /\ ~Contains(TicketedUrl, TicketMarker)) =>
    /\ result.kind = "raise"
    /\ IsInstance(result.exc, "SSOProtocolError")

\* C6: a ServiceTicket that get_ticket returns has a non-empty value.
C6_TicketNonEmpty ==
  (GetTicketEnded /\ result.kind = "return") => result.value.value # <<>>

\* C7: the value of a returned ServiceTicket is all of the redirect URL after
\* its first ticket=, to the end of the URL.
C7_TicketIsRestOfUrl ==
  (GetTicketEnded /\ result.kind = "return") =>
    result.value.value = AfterFirst(TicketedUrl, TicketMarker)

\* the service's first response has been received
ServiceAnswered == op = "get_ticket" /\ initial_service_response # NoResponse

\* no request so far carried a form or a cookie
NoCredentialsSent == \A i \in DOMAIN requests : requests[i].data = {}

\* C8: once the service has answered with a status other than 200 and 302,
\* get_ticket is over with a ConnectionError that is no SSOProtocolError, and
\* the GET of the service is the only request it made.
C8_BadStatusIsConnectionError ==
  (ServiceAnswered /\ initial_service_response.status_code \notin {200, 302}) =>
    /\ pc = "done"
    /\ result = Raise("ConnectionError",
                      <<"Could not reach service. Status code: ",
                        initial_service_response.status_code>>)
    /\ ~IsInstance(result.exc, "SSOProtocolError")
    /\ requests = <<GetRequest(args.service_url, FALSE)>>

\* the service answered 301 with a Location, and that was a ConnectionError
C8_Witness ==
  /\ ServiceAnswered
  /\ initial_service_response.status_code = 301
  /\ Has(initial_service_response.headers, "Location")
  /\ result.exc = "ConnectionError"

\* C9: once the service has answered 200, or 302 without a Location header,
\* get_ticket is over with the SSOProtocolError that the service is not SSO
\* protected, and no request carried the credentials.
C9_NotProtected ==
  ( /\ ServiceAnswered
    /\ \/ initial_service_response.status_code = 200
       \/ /\ initial_service_response.status_code = 302
          /\ ~Has(initial_service_response.headers, "Location") ) =>
    /\ pc = "done"
    /\ result = Raise("SSOProtocolError", <<"Service doesn't seem to be SSO protected.">>)
    /\ NoCredentialsSent
    /\ Len(requests) = 1

\* the service answered 200 with a Location header, and that was the error
C9_Witness ==
  /\ ServiceAnswered
  /\ initial_service_response.status_code = 200
  /\ Has(initial_service_response.headers, "Location")
  /\ result.exc = "SSOProtocolError"

HasSuccessMarker(tags) ==
  \E i \in DOMAIN tags :
    /\ tags[i].tag = "div"
    /\ \E k \in DOMAIN tags[i].attrs :
         /\ tags[i].attrs[k][1] = "class"
         /\ tags[i].attrs[k][2] # None
         /\ Contains(tags[i].attrs[k][2][1], AlertSuccess)

UserInfoEnded == op = "get_user_info" /\ pc = "done"

\* the credential POST of get_user_info was sent and last_response answers it
UserInfoPosted == UserInfoEnded /\ requests # <<>> /\ Last(requests).method = "POST"

\* C3: when the POST of get_user_info is answered 200 with a page that has no
\* div whose class contains alert-success, get_user_info raises LoginFailed,
\* whatever the tables of the page are.
C3_NoMarkerIsLoginFailed ==
  (UserInfoPosted /\ last_response.status_code = 200
                  /\ ~HasSuccessMarker(last_response.body.tags)) =>
    result = Raise("LoginFailed", <<"Invalid credentials.">>)

\* the rename table of the normalizer: raw name, regularized key
RenameTable ==
  { <<S_displayName, K_full_name>>, <<S_givenName, K_given_name>>,
    <<S_sn, K_first_last_name>>, <<S_apellidomaterno, K_second_last_name>>,
    <<S_apellidos, K_surnames>>, <<S_uid, K_username>>, <<S_mail, K_email>>,
    <<S_mailAlternateAddress, K_alternate_emails>>,
    <<S_businessCategory, K_user_category>>, <<S_employeeType, K_user_type>>,
    <<S_tipocorreo, K_email_type>>, <<S_carlicense, K_run>>,
    <<S_UDCIdentifier, K_udc_id>> }

Denylist == {S_eduPersonScopedAffiliation, S_cn, S_organizationName}

Renamed(name) == \E e \in RenameTable : e[1] = name

RenamedKey(name) == (CHOOSE e \in RenameTable : e[1] = name)[2]

\* a value is blank when it is a single element of white space alone
Blank(value_seq) == Len(value_seq) = 1 /\ Strip(value_seq[1]) = <<>>

\* the data rows of the page's first table (its first row is the header)
DataRows(body) == Tail(body.tables[1])

RawName(row) == Strip(row[1])

\* the key a data row gives the mapping, or None when the row gives none
KeyOfRow(row) ==
  IF Renamed(RawName(row)) THEN Some(RenamedKey(RawName(row)))
  ELSE IF RawName(row) \in Denylist \/ Blank(ValueSeq(row[2])) THEN None
  ELSE Some(RawName(row))

\* the value the claim gives the key of a data row; run is the key whose
\* value is stripped of its leading zeros when stripped_run holds
ValueOfRow(row, stripped_run) ==
  LET value_seq == ValueSeq(row[2])
  IN  IF RawName(row) = S_mailAlternateAddress THEN List(value_seq)
      ELSE IF RawName(row) = S_carlicense /\ stripped_run
        THEN Str(LStrip(value_seq[1], {"0"}))
      ELSE IF Renamed(RawName(row)) THEN Str(value_seq[1])
      ELSE IF Len(value_seq) = 1 THEN Str(value_seq[1])
      ELSE List(value_seq)

\* the mapping holds the keys of the rows and no other, each with the value
\* of the last row that gives that key
MappingIs(attributes, rows, stripped_run) ==
  /\ DOMAIN attributes = { KeyOfRow(rows[i])[1] :
                             i \in { j \in DOMAIN rows : KeyOfRow(rows[j]) # None } }
  /\ \A i \in DOMAIN rows :
       ( /\ KeyOfRow(rows[i]) # None
         /\ \A j \in DOMAIN rows : j > i => KeyOfRow(rows[j]) # KeyOfRow(rows[i]) ) =>
         attributes[KeyOfRow(rows[i])[1]] = ValueOfRow(rows[i], stripped_run)

\* get_user_info has returned the mapping of a page
UserInfoReturned == UserInfoPosted /\ result.kind = "return"

\* C4 as it stands: the mapping get_user_info returns for a page with the
\* success marker and a well-formed table has exactly the regularized keys of
\* the renamed rows and the raw names of the other rows that are neither
\* denylisted nor blank; a renamed key holds value_seq[0], alternate_emails
\* alone holding the whole value_seq, and an unmatched key holds value_seq[0]
\* or, of several values, the whole value_seq.
C4_MappingAsClaimed ==
  UserInfoReturned =>
    MappingIs(result.value, DataRows(last_response.body), FALSE)

\* C4, amended: as above, but run (from carlicense) holds value_seq[0]
\* without its leading zeros.
C4_MappingExact ==
  UserInfoReturned =>
    /\ HasSuccessMarker(last_response.body.tags)
    /\ \A i \in DOMAIN DataRows(last_response.body) :
         Len(DataRows(last_response.body)[i]) = 2
    /\ MappingIs(result.value, DataRows(last_response.body), TRUE)

\* a page with a mail row and a carlicense row has given email and run
C4_Witness ==
  /\ UserInfoReturned
  /\ Len(DataRows(last_response.body)) = 2
  /\ RawName(DataRows(last_response.body)[1]) = S_mail
  /\ RawName(DataRows(last_response.body)[2]) = S_carlicense
  /\ DOMAIN result.value = {K_email, K_run}
  /\ result.value[K_run] = Str(<<"7">>)
  /\ result.value[K_email] = Str(<<"0","0","7">>)


\* C11: when the POST of get_user_info is answered with a status other than
\* 200, get_user_info raises the SSOProtocolError that carries the status,
\* whatever the page holds: no attributes, no LoginFailed, and none of the
\* errors of the attribute parser.
C11_Non200IsProtocolError ==
  (UserInfoPosted /\ last_response.status_code # 200) =>
    result = Raise("SSOProtocolError",
                   <<"SSO didn't respond to information request as expected (HTTP ",
                     last_response.status_code>>)

\* a 500 whose page has the success marker and an attribute row
C11_Witness ==
  /\ UserInfoPosted
  /\ last_response.status_code = 500
  /\ HasSuccessMarker(last_response.body.tags)
  /\ last_response.body.tables # <<>>
  /\ Len(last_response.body.tables[1]) = 2
  /\ result.exc = "SSOProtocolError"

\* the handshake data is made of the cookie and of an execution field of resp
BuiltFrom(hs, resp) ==
  /\ Get(resp.cookies, "ssosaf") = Some(hs.ssosaf)
  /\ \E i \in ExecutionInputs(resp.body.tags) :
       hs.execution \in TagValues(resp.body.tags[i])

\* the form and the cookie of a credential POST made with the handshake hs
CarriesHandshake(request, hs) ==
  /\ request.method = "POST"
  /\ request.data = { <<"username", args.username>>, <<"password", args.password>>,
                      <<"_eventId", "submit">>, <<"execution", hs.execution>> }
  /\ request.cookies = { <<"ssosaf", hs.ssosaf>> }

\* C12: get_user_info without a handshake makes one GET of the endpoint and,
\* only when that handshake has succeeded, one POST to the same endpoint;
\* given a handshake it makes no GET and one POST.  The POST carries the
\* execution of that handshake, _eventId submit and its ssosaf as cookie, and
\* there is never a second POST.
C12_UserInfoRequests ==
  op = "get_user_info" =>
    LET get == GetRequest(args.sso_endpoint, TRUE)
    IN  IF args.handshake_data # None
          THEN /\ pc \in {"post", "done"}
               /\ pc = "post" => requests = <<>>
               /\ pc = "done" =>
                    /\ Len(requests) = 1
                    /\ requests[1].url = args.sso_endpoint
                    /\ CarriesHandshake(requests[1], args.handshake_data[1])
          ELSE /\ pc = "handshake" => requests = <<>>
               /\ pc = "post" =>
                    /\ requests = <<get>>
                    /\ BuiltFrom(handshake_data, last_response)
               /\ pc = "done" =>
                    \/ /\ requests = <<get>>
                       /\ result.kind = "raise"
                    \/ /\ Len(requests) = 2
                       /\ requests[1] = get
                       /\ requests[2].url = args.sso_endpoint
                       /\ CarriesHandshake(requests[2], handshake_data)

\* a call without a handshake has made its GET and then its POST, with the
\* cookie and the execution of the page
C12_Witness ==
  /\ op = "get_user_info"
  /\ args.handshake_data = None
  /\ pc = "done"
  /\ Len(requests) = 2
  /\ requests[2].cookies = { <<"ssosaf", "saf-1">> }
  /\ <<"execution", "e2">> \in requests[2].data


\* the answer just received makes the step that asked for it fail: a service
\* status other than 200 and 302, a handshake page without the ssosaf cookie,
\* a login answer that is no redirect (get_ticket) or not a 200 (get_user_info)
StepFails ==
  \/ pc = "service" /\ last_response'.status_code \notin {200, 302}
  \/ pc = "handshake" /\ Get(last_response'.cookies, "ssosaf") = None
  \/ pc = "post" /\ op = "get_ticket" /\ ~is_redirect(last_response')
  \/ pc = "post" /\ op = "get_user_info" /\ last_response'.status_code # 200

NoPost(reqs) == \A i \in 1..Len(reqs) : reqs[i].method = "GET"

\* C13: in all three operations a step that fails ends the call at once with
\* an error and no result value; after an error no request is made any more
\* (no retry, no fallback), and a handshake that failed inside get_user_info
\* or get_ticket is never followed by the credential POST.
C13_AbortOnFailure ==
  [][ /\ (requests' # requests /\ StepFails) =>
           /\ pc' = "done"
           /\ result'.kind = "raise"
           /\ result'.value = None
           /\ Len(requests') = Len(requests) + 1
      /\ (requests' # requests /\ pc = "handshake" /\ result'.kind = "raise") =>
           NoPost(requests')
      /\ result.kind = "raise" =>
           /\ pc = "done"
           /\ result.value = None
           /\ requests' = <<>>
           /\ result' = NoResult
    ]_vars

\* get_ticket has stopped after its second request, the handshake, which
\* failed: two GETs and no POST
C13_Witness ==
  /\ op = "get_ticket"
  /\ pc = "done"
  /\ Len(requests) = 2
  /\ NoPost(requests)
  /\ result.exc = "ValueError"
  /\ Get(last_response.cookies, "ssosaf") = None


\* C14: the mapping get_user_info returns never has a key that is one of the
\* raw names eduPersonScopedAffiliation, cn, organizationName, whatever the
\* rows: white space around the name, several values, the name in more than
\* one row.
C14_NoDenylistedKey ==
  UserInfoReturned => DOMAIN result.value \cap Denylist = {}

\* two rows of a denylisted name, one with white space around the name, each
\* with several values, and the mapping returned is empty
C14_Witness ==
  /\ UserInfoReturned
  /\ Len(DataRows(last_response.body)) = 2
  /\ \A i \in 1..2 :
       /\ RawName(DataRows(last_response.body)[i]) = S_cn
       /\ Len(ValueSeq(DataRows(last_response.body)[i][2])) > 1
  /\ DataRows(last_response.body)[1][1] # S_cn
  /\ DataRows(last_response.body)[2][1] = S_cn
  /\ DOMAIN result.value = {}

\* stripped is whole without its leading zeros: some number of zeros followed
\* by stripped make whole, and stripped does not begin with a zero
WithoutLeadingZeros(whole, stripped) ==
  \E n \in 0..Len(whole) :
    /\ \A k \in 1..n : whole[k] = "0"
    /\ stripped = SubSeq(whole, n + 1, Len(whole))
    /\ stripped = <<>> \/ stripped[1] # "0"

\* C15: the run of the mapping is the first element of the value of the
\* carlicense row without its leading zeros, every other character kept in
\* its place; it is a single string, never a sequence, also when the value
\* has several elements.
C15_RunWithoutLeadingZeros ==
  UserInfoReturned =>
    LET rows == DataRows(last_response.body)
    IN  \A i \in DOMAIN rows :
          ( /\ RawName(rows[i]) = S_carlicense
            /\ \A j \in DOMAIN rows : j > i => KeyOfRow(rows[j]) # Some(K_run) ) =>
            /\ K_run \in DOMAIN result.value
            /\ result.value[K_run].type = "str"
            /\ WithoutLeadingZeros(ValueSeq(rows[i][2])[1], result.value[K_run].v)

\* carlicense [0070] has given the run 70
C15_Witness ==
  /\ UserInfoReturned
  /\ Len(DataRows(last_response.body)) = 1
  /\ DataRows(last_response.body)[1] = <<S_carlicense, <<"[","0","0","7","0","]">>>>
  /\ result.value[K_run] = Str(<<"7","0">>)


\* the call was given its handshake by its caller
HandshakeSupplied == op = "get_user_info" /\ args.handshake_data # None

\* C16: nothing of a handshake outlives a call.  A call starts with no
\* handshake data and no request made; unless its caller hands it a handshake,
\* it makes a handshake GET of its own and goes on with the data built from
\* the answer to that GET, and its POST carries that data; a handshake from
\* before is in a POST only when the caller has passed it.
C16_NoHandshakeCaching ==
  [][ /\ pc = "idle" => (handshake_data' = NoHandshake \/ HandshakeSupplied')
      /\ pc' = "idle" => handshake_data' = NoHandshake /\ requests' = <<>>
      /\ (pc = "handshake" /\ pc' # pc) =>
           requests' = Append(requests, GetRequest(HandshakeEndpoint, TRUE))
      /\ (pc = "handshake" /\ pc' = "post") =>
           BuiltFrom(handshake_data', last_response')
      /\ (pc = "post" /\ pc' = "done") =>
           /\ CarriesHandshake(Last(requests'), handshake_data)
           /\ IF HandshakeSupplied
                THEN /\ handshake_data = args.handshake_data[1]
                     /\ requests = <<>>
                ELSE /\ requests # <<>>
                     /\ Last(requests) = GetRequest(HandshakeEndpoint, TRUE)
                     /\ BuiltFrom(handshake_data, last_response)
    ]_vars

\* a call that was given no handshake has sent its POST with the cookie of
\* its own handshake page, which is not the one of the handshake made before
C16_Witness ==
  /\ op \in {"get_user_info", "get_ticket"}
  /\ ~HandshakeSupplied
  /\ pc = "done"
  /\ Last(requests).method = "POST"
  /\ Last(requests).cookies = { <<"ssosaf", handshake_data.ssosaf>> }
  /\ \A hs \in SuppliedHandshakes : hs # handshake_data


\* every class attribute of a div of the page has a value
ClassesValued(tags) ==
  \A i \in DOMAIN tags :
    tags[i].tag = "div" =>
      \A k \in DOMAIN tags[i].attrs :
        tags[i].attrs[k][1] = "class" => tags[i].attrs[k][2] # None

\* the page has no table, or its first table has no row, or a data row of it
\* has not exactly two cells
Malformed(body) ==
  \/ body.tables = <<>>
  \/ body.tables[1] = <<>>
  \/ \E i \in DOMAIN DataRows(body) : Len(DataRows(body)[i]) # 2

\* C17: a 200 page with the success marker whose table is missing, empty or
\* has a data row that has not exactly two cells makes get_user_info fail
\* with the parse error of the attribute table, the same in the three cases
\* (the failed assertion of feed), and no mapping is returned.
C17_MalformedIsParseError ==
  ( /\ UserInfoPosted
    /\ last_response.status_code = 200
    /\ ClassesValued(last_response.body.tags)
    /\ HasSuccessMarker(last_response.body.tags)
    /\ Malformed(last_response.body) ) =>
    /\ result.kind = "raise"
    /\ result.exc = "AssertionError"
    /\ result.value = None


\* the value sequence as C18 words it: the cell without one leading [ and
\* without one trailing ], split on comma-space
OneBracketOff(cell) ==
  LET opened == IF cell # <<>> /\ cell[1] = "[" THEN Tail(cell) ELSE cell
  IN  IF opened # <<>> /\ Last(opened) = "]"
        THEN SubSeq(opened, 1, Len(opened) - 1)
        ELSE opened

ClaimedValueSeq(cell) == Split(OneBracketOff(cell), <<",", " ">>)

\* C18: the value sequence of a row is its value cell without exactly one
\* leading [ and exactly one trailing ], split on comma-space: it has at
\* least one element, and brackets beyond the first and the last stay in the
\* elements.  Seen in the mapping returned: the last row of a name that is
\* neither renamed nor denylisted, with a value that is not blank, gives that
\* name the one element, or the sequence of several elements.
C18_OneBracketEachSide ==
  UserInfoReturned =>
    LET rows == DataRows(last_response.body)
    IN  \A i \in DOMAIN rows :
          LET name == RawName(rows[i])
              value_seq == ClaimedValueSeq(rows[i][2])
          IN  ( /\ name \notin Denylist
                /\ ~Renamed(name)
                /\ ~Blank(value_seq)
                /\ \A j \in DOMAIN rows : j > i => KeyOfRow(rows[j]) # Some(name) ) =>
                /\ Len(value_seq) >= 1
                /\ name \in DOMAIN result.value
                /\ result.value[name] = IF Len(value_seq) = 1 THEN Str(value_seq[1])
                                        ELSE List(value_seq)


\* C19: the page counts as a success exactly when one of its divs has a class
\* attribute whose value contains alert-success, wherever that div stands and
\* whatever tags come after it.  Seen from get_user_info on a 200 answer:
\* with such a div the attribute table is read (a mapping, or the error of a
\* malformed table), without one the call fails with LoginFailed.
C19_MarkerDecides ==
  (UserInfoPosted /\ last_response.status_code = 200) =>
    IF HasSuccessMarker(last_response.body.tags)
      THEN result.exc \in {"", "IndexError", "AssertionError"}
      ELSE result = Raise("LoginFailed", <<"Invalid credentials.">>)


\* C20: the SSOUserInfoParser of uc_sso/parsers.py and the one of
\* uc_sso_helper/main.py, fed the same page, end the same way and leave the
\* same login_status and the same attributes.
C20_ParsersAgree ==
  UserInfoPosted =>
    LET page == last_response.body
    IN  /\ UserInfoFeed(page).exc = HelperUserInfoFeed(page).exc
        /\ UserInfoFeed(page).login_status = HelperUserInfoFeed(page).login_status
        /\ UserInfoFeed(page).attributes = HelperUserInfoFeed(page).attributes


\* the request carries a username or a password
HasCredentials(request) ==
  \E field \in request.data : field[1] \in {"username", "password"}

\* the Location header of the service's first response
ServiceLocation == Get(initial_service_response.headers, "Location")[1]

\* the credentials of get_ticket are in its third request alone, the POST to
\* the URL of the Location header of the service's first response, and that
\* request is made whenever the handshake has succeeded
CredentialsInThePostAlone ==
  /\ \A i \in DOMAIN requests :
       HasCredentials(requests[i]) =>
         /\ i = 3
         /\ requests[i].method = "POST"
         /\ requests[i].url = ServiceLocation
         /\ <<"username", args.username>> \in requests[i].data
         /\ <<"password", args.password>> \in requests[i].data
  /\ TicketPosted => HasCredentials(requests[3])

\* the requests of get_ticket and its result are made of username, password,
\* service_url and the responses received, and of nothing else: the first is
\* the GET of service_url, the second the GET of the Location of its answer,
\* the third the POST to it, and the result is what the last answer decides
MadeWithoutEndpoint ==
  /\ Len(requests) <= 3
  /\ pc = "service" => requests = <<>>
  /\ pc = "handshake" => Len(requests) = 1
  /\ pc = "post" => Len(requests) = 2
  /\ Len(requests) >= 1 => requests[1] = GetRequest(args.service_url, FALSE)
  /\ Len(requests) >= 2 => requests[2] = GetRequest(ServiceLocation, TRUE)
  /\ Len(requests) = 3 =>
       /\ requests[3].url = ServiceLocation
       /\ CarriesHandshake(requests[3], handshake_data)
       /\ ~requests[3].allow_redirects
  /\ pc = "done" =>
       result = CASE Len(requests) = 1 -> CheckServiceResponse(initial_service_response)
                  [] Len(requests) = 2 -> GetInitialHandshake(last_response)
                  [] Len(requests) = 3 -> TicketFromResponse(last_response)

====
